---- MODULE Spec2Model ----
(***************************************************************************)
(* Model of src/src/saga.rs: the Saga datatype, its four combinators       *)
(* (map_action, map_action_result, combine, merge) and the                 *)
(* ActionComputation::compute_new_actions entry point.                     *)
(*                                                                         *)
(* A Saga owns one boxed closure `react`.  A closure is modelled by the    *)
(* environment it captures: a base saga captures a caller-supplied         *)
(* reaction function, a combinator's new_react captures the saga(s) it     *)
(* consumed and the transform it borrowed.  Invoking a closure is the      *)
(* operator Call, which returns the produced Vec, the panic (if the        *)
(* invocation unwound) and the ordered log of every closure/transform      *)
(* invocation it made.                                                     *)
(***************************************************************************)
EXTENDS Integers, Sequences, FiniteSets, TLC

(* ------------------------------ bounds --------------------------------- *)
MaxSagas == 2          \* caller-constructed (base) sagas per behaviour
MaxCombinators == 2    \* combinator applications per behaviour

(* ------------------------------ values --------------------------------- *)
\* A plain (non-Sum) value of the domain types, tests/api.rs OrderEvent etc.
Leaf(x) == [tag |-> "Leaf", val |-> x]
\* Sum::First(v) / Sum::Second(v)  (crate::Sum, used at saga.rs:120-148)
First(v) == [tag |-> "First", val |-> v]
Second(v) == [tag |-> "Second", val |-> v]

\* The variants of OrderEvent (tests/api.rs:39-43)
Events == {"Created", "Updated", "Cancelled"}

\* into_iter().map(|a| Sum::Second(a)).collect()
AllSecond(s) == [i \in 1..Len(s) |-> Second(s[i])]
\* into_iter().map(|a| Sum::First(a)).collect()
AllFirst(s) == [i \in 1..Len(s) |-> First(s[i])]

(* ------------------- caller-supplied function values ------------------- *)
\* Reaction functions a caller may box into Saga.react.
ReactNames == {"order_saga", "notify_saga", "fanout_saga", "faulty_saga"}

\* The body of a caller-supplied reaction function on a plain event.
\* ok = FALSE is a panic raised by that function.
ReactFn(name, ar) ==
    CASE name = "order_saga" ->
           IF ar.val = "Created"
             THEN [ok |-> TRUE, out |-> <<Leaf("CreateShipment")>>]
             ELSE [ok |-> TRUE, out |-> <<>>]
      [] name = "notify_saga" ->
           [ok |-> TRUE, out |-> <<Leaf("Notify")>>]
      [] name = "fanout_saga" ->
           CASE ar.val = "Created" ->
                  [ok |-> TRUE, out |-> <<Leaf("CreateShipment"), Leaf("Notify")>>]
             [] ar.val = "Updated" ->
                  [ok |-> TRUE,
                   out |-> <<Leaf("Notify"), Leaf("CreateShipment"), Leaf("Notify")>>]
             [] OTHER -> [ok |-> TRUE, out |-> <<Leaf("Audit")>>]
      [] name = "faulty_saga" ->
           CASE ar.val = "Created" -> [ok |-> TRUE, out |-> <<Leaf("Audit")>>]
             [] ar.val = "Updated" -> [ok |-> FALSE, out |-> <<>>]
             [] OTHER -> [ok |-> TRUE, out |-> <<>>]

\* Primitive action transforms F: Fn(&A) -> A2 a caller may pass to map_action.
TransformPrims == {"rotate", "konst", "tag_first"}

RECURSIVE TransformPrim(_, _)
TransformPrim(p, a) ==
    CASE p = "rotate" ->
           IF a.tag = "Leaf"
             THEN Leaf(CASE a.val = "CreateShipment" -> "Notify"
                         [] a.val = "Notify" -> "Audit"
                         [] OTHER -> "CreateShipment")
             ELSE [tag |-> a.tag, val |-> TransformPrim(p, a.val)]
      [] p = "konst" -> Leaf("Audit")
      [] p = "tag_first" -> First(a)

\* A transform is a pipeline of primitives applied left to right; <<>> is the
\* identity function.
RECURSIVE Transform(_, _)
Transform(f, a) ==
    IF f = <<>> THEN a ELSE Transform(Tail(f), TransformPrim(Head(f), a))

\* compose(g, f) = g after f
compose(g, f) == f \o g

Transforms == {<<p>> : p \in TransformPrims}

\* Adapters F: Fn(&AR2) -> AR a caller may pass to map_action_result.
Adapters == {"shift", "untag"}

RECURSIVE Adapter(_, _)
Adapter(t, ar2) ==
    CASE t = "shift" ->
           IF ar2.tag = "Leaf"
             THEN Leaf(CASE ar2.val = "Created" -> "Updated"
                         [] ar2.val = "Updated" -> "Cancelled"
                         [] OTHER -> "Created")
             ELSE [tag |-> ar2.tag, val |-> Adapter(t, ar2.val)]
      [] t = "untag" -> ar2.val

\* The type AR2 of an adapter whose result type AR has the values `dom`.
AdapterDomain(t, dom) ==
    CASE t = "shift" -> dom
      [] t = "untag" -> {First(x) : x \in dom} \cup {Second(x) : x \in dom}

(* ------------------------------- sagas --------------------------------- *)
\* Saga { react: Box::new(<caller-supplied function>) }: the function value
\* is moved into the saga, which is identified by it.
construct(name) == [kind |-> "base", react |-> name]

\* Saga::map_action: boxes a closure capturing self and f; invokes nothing.
map_action(self, f) == [kind |-> "map_action", self |-> self, f |-> f]

\* Saga::map_action_result: boxes a closure capturing self and f.
map_action_result(self, f) == [kind |-> "map_action_result", self |-> self, adapter |-> f]

\* Saga::combine: boxes a closure capturing self and saga2.
combine(self, saga2) == [kind |-> "combine", self |-> self, saga2 |-> saga2]

\* Saga::merge: boxes a closure capturing self and saga2.
merge(self, saga2) == [kind |-> "merge", self |-> self, saga2 |-> saga2]

\* Number of combinator applications a saga was built with.
RECURSIVE Size(_)
Size(s) ==
    CASE s.kind = "base" -> 0
      [] s.kind \in {"map_action", "map_action_result"} -> 1 + Size(s.self)
      [] OTHER -> 1 + Size(s.self) + Size(s.saga2)

\* Number of combinator applications the sagas of a set were built with.
RECURSIVE Applied(_)
Applied(sagas) ==
    IF sagas = {} THEN 0
    ELSE LET s == CHOOSE x \in sagas : TRUE IN Size(s) + Applied(sagas \ {s})

\* Every saga (closure) a saga is built from, itself included.
RECURSIVE Nodes(_)
Nodes(s) ==
    CASE s.kind = "base" -> {s}
      [] s.kind \in {"map_action", "map_action_result"} -> {s} \cup Nodes(s.self)
      [] OTHER -> {s} \cup Nodes(s.self) \cup Nodes(s.saga2)

\* The caller-supplied reaction functions boxed in the sagas of a set.
Boxed(sagas) ==
    {n.react : n \in {m \in UNION {Nodes(s) : s \in sagas} : m.kind = "base"}}

\* The values of the type parameter AR of a saga.
RECURSIVE InputsOf(_)
InputsOf(s) ==
    CASE s.kind = "base" -> {Leaf(e) : e \in Events}
      [] s.kind = "map_action" -> InputsOf(s.self)
      [] s.kind = "map_action_result" -> AdapterDomain(s.adapter, InputsOf(s.self))
      [] s.kind = "combine" ->
           {First(x) : x \in InputsOf(s.self)} \cup {Second(y) : y \in InputsOf(s.saga2)}
      [] s.kind = "merge" -> InputsOf(s.self)

(* ------------------------- invoking a closure -------------------------- *)
NoPanic == [by |-> "None", arg |-> Leaf("None")]

\* One entry of the invocation log: which function value ran on which argument.
Invocation(callee, arg) == [callee |-> callee, arg |-> arg]
TransformCallee(f) == [kind |-> "transform", f |-> f]
AdapterCallee(t) == [kind |-> "adapter", adapter |-> t]

\* A normal return of a closure / an unwinding one.
Returned(out, log) == [ok |-> TRUE, out |-> out, panic |-> NoPanic, log |-> log]
Unwound(panic, log) == [ok |-> FALSE, out |-> <<>>, panic |-> panic, log |-> log]

RECURSIVE Call(_, _)

\* The caller-supplied closure of a base saga.
base_react(s, ar) ==
    LET r == ReactFn(s.react, ar)
        log == <<Invocation(s, ar)>>
    IN IF r.ok THEN Returned(r.out, log)
       ELSE Unwound([by |-> s.react, arg |-> ar], log)

\* map_action collecting the mapped actions in reverse order.
map_action_react_reversed(s, ar) ==
    LET a == Call(s.self, ar)
        log == <<Invocation(s, ar)>> \o a.log
    IN IF ~a.ok THEN Unwound(a.panic, log)
       ELSE Returned([i \in 1..Len(a.out) |->
                         Transform(s.f, a.out[Len(a.out) + 1 - i])],
                     log \o [i \in 1..Len(a.out) |->
                                Invocation(TransformCallee(s.f), a.out[i])])

\* map_action skipping the first produced action.
map_action_react_skip(s, ar) ==
    LET a == Call(s.self, ar)
        rest == IF a.out = <<>> THEN <<>> ELSE Tail(a.out)
        log == <<Invocation(s, ar)>> \o a.log
    IN IF ~a.ok THEN Unwound(a.panic, log)
       ELSE Returned([i \in 1..Len(rest) |-> Transform(s.f, rest[i])],
                     log \o [i \in 1..Len(rest) |->
                                Invocation(TransformCallee(s.f), rest[i])])

\* new_react of map_action (saga.rs:96-99)
map_action_react(s, ar) ==
    LET a == Call(s.self, ar)
        log == <<Invocation(s, ar)>> \o a.log
    IN IF ~a.ok THEN Unwound(a.panic, log)
       ELSE Returned([i \in 1..Len(a.out) |-> Transform(s.f, a.out[i])],
                     log \o [i \in 1..Len(a.out) |->
                                Invocation(TransformCallee(s.f), a.out[i])])

\* map_action_result delegating without the result of the adapter.
map_action_result_react_unadapted(s, ar2) ==
    LET ar == IF s.adapter = "shift" THEN ar2 ELSE Adapter(s.adapter, ar2)
        r == Call(s.self, ar)
        log == <<Invocation(s, ar2), Invocation(AdapterCallee(s.adapter), ar2)>> \o r.log
    IN IF ~r.ok THEN Unwound(r.panic, log) ELSE Returned(r.out, log)

\* new_react of map_action_result (saga.rs:110-113)
map_action_result_react(s, ar2) ==
    LET ar == Adapter(s.adapter, ar2)
        r == Call(s.self, ar)
        log == <<Invocation(s, ar2), Invocation(AdapterCallee(s.adapter), ar2)>> \o r.log
    IN IF ~r.ok THEN Unwound(r.panic, log) ELSE Returned(r.out, log)

\* combine wrapping the actions of self as First.
combine_react_first_tag(s, ar) ==
    CASE ar.tag = "First" ->
           LET a == Call(s.self, ar.val)
               log == <<Invocation(s, ar)>> \o a.log
           IN IF ~a.ok THEN Unwound(a.panic, log)
              ELSE Returned(AllFirst(a.out), log)
      [] ar.tag = "Second" ->
           LET a2 == Call(s.saga2, ar.val)
               log == <<Invocation(s, ar)>> \o a2.log
           IN IF ~a2.ok THEN Unwound(a2.panic, log)
              ELSE Returned(AllFirst(a2.out), log)

\* combine wrapping the actions of saga2 as Second.
combine_react_second_tag(s, ar) ==
    CASE ar.tag = "First" ->
           LET a == Call(s.self, ar.val)
               log == <<Invocation(s, ar)>> \o a.log
           IN IF ~a.ok THEN Unwound(a.panic, log)
              ELSE Returned(AllSecond(a.out), log)
      [] ar.tag = "Second" ->
           LET a2 == Call(s.saga2, ar.val)
               log == <<Invocation(s, ar)>> \o a2.log
           IN IF ~a2.ok THEN Unwound(a2.panic, log)
              ELSE Returned(AllSecond(a2.out), log)

\* combine invoking the selected reaction function a second time.
combine_react_twice(s, ar) ==
    CASE ar.tag = "First" ->
           LET a == Call(s.self, ar.val)
               log == <<Invocation(s, ar)>> \o a.log \o a.log
           IN IF ~a.ok THEN Unwound(a.panic, <<Invocation(s, ar)>> \o a.log)
              ELSE Returned(AllSecond(a.out), log)
      [] ar.tag = "Second" ->
           LET a2 == Call(s.saga2, ar.val)
               log == <<Invocation(s, ar)>> \o a2.log \o a2.log
           IN IF ~a2.ok THEN Unwound(a2.panic, <<Invocation(s, ar)>> \o a2.log)
              ELSE Returned(AllFirst(a2.out), log)

\* new_react of combine (saga.rs:121-130)
combine_react(s, ar) ==
    CASE ar.tag = "First" ->
           LET a == Call(s.self, ar.val)
               log == <<Invocation(s, ar)>> \o a.log
           IN IF ~a.ok THEN Unwound(a.panic, log)
              ELSE Returned(AllSecond(a.out), log)
      [] ar.tag = "Second" ->
           LET a2 == Call(s.saga2, ar.val)
               log == <<Invocation(s, ar)>> \o a2.log
           IN IF ~a2.ok THEN Unwound(a2.panic, log)
              ELSE Returned(AllFirst(a2.out), log)

\* merge chaining the actions of saga2 before those of self.
merge_react_swapped(s, ar) ==
    LET a == Call(s.self, ar)
        log1 == <<Invocation(s, ar)>> \o a.log
    IN IF ~a.ok THEN Unwound(a.panic, log1)
       ELSE LET a2 == Call(s.saga2, ar)
                log2 == log1 \o a2.log
            IN IF ~a2.ok THEN Unwound(a2.panic, log2)
               ELSE Returned(AllFirst(a2.out) \o AllSecond(a.out), log2)

\* merge swallowing a panic of self and going on with saga2.
merge_react_catch(s, ar) ==
    LET a == Call(s.self, ar)
        log1 == <<Invocation(s, ar)>> \o a.log
        a2 == Call(s.saga2, ar)
        log2 == log1 \o a2.log
    IN IF ~a2.ok THEN Unwound(a2.panic, log2)
       ELSE Returned(AllSecond(a.out) \o AllFirst(a2.out), log2)

\* new_react of merge (saga.rs:138-149)
merge_react(s, ar) ==
    LET a == Call(s.self, ar)
        log1 == <<Invocation(s, ar)>> \o a.log
    IN IF ~a.ok THEN Unwound(a.panic, log1)
       ELSE LET a2 == Call(s.saga2, ar)
                log2 == log1 \o a2.log
            IN IF ~a2.ok THEN Unwound(a2.panic, log2)
               ELSE Returned(AllSecond(a.out) \o AllFirst(a2.out), log2)

\* (s.react)(ar): dispatch on the closure the saga holds.
Call(s, ar) ==
    CASE s.kind = "base" -> base_react(s, ar)
      [] s.kind = "map_action" -> map_action_react(s, ar)
      [] s.kind = "map_action_result" -> map_action_result_react(s, ar)
      [] s.kind = "combine" -> combine_react(s, ar)
      [] s.kind = "merge" -> merge_react(s, ar)

\* ActionComputation::compute_new_actions (saga.rs:163-165)
compute_new_actions(self, event) ==
    LET r == Call(self, event)
    IN IF ~r.ok THEN r ELSE Returned([i \in 1..Len(r.out) |-> r.out[i]], r.log)

(* ------------------------------- state --------------------------------- *)
VARIABLES
    pool,      \* the sagas the caller currently owns
    lastOp,    \* the operation performed last: a build or a computation
    target,    \* the saga of the last compute_new_actions call
    event,     \* the argument of the last compute_new_actions call
    result,    \* what the last compute_new_actions call returned / raised
    log        \* the closure/transform invocations made by the last operation

vars == <<pool, lastOp, target, event, result, log>>

NoSaga == [kind |-> "none"]
NoResult == [ok |-> TRUE, out |-> <<>>, panic |-> NoPanic]

Init ==
    /\ pool = {}
    /\ lastOp = "init"
    /\ target = NoSaga
    /\ event = Leaf("None")
    /\ result = NoResult
    /\ log = <<>>

\* A constructor or combinator call: it returns a saga, computes no actions
\* and invokes none of the functions it boxes.
Builds ==
    /\ lastOp' = "build"
    /\ target' = NoSaga
    /\ event' = Leaf("None")
    /\ result' = NoResult
    /\ log' = <<>>

\* The caller wraps a reaction function: Saga { react: Box::new(name) }
Construct(name) ==
    /\ name \notin Boxed(pool)
    /\ Cardinality(Boxed(pool)) < MaxSagas
    /\ pool' = pool \cup {construct(name)}
    /\ Builds

\* map_action running the consumed saga while building the new one.
MapActionEager(s, f) ==
    /\ Applied(pool) < MaxCombinators
    /\ pool' = (pool \ {s}) \cup {map_action(s, f)}
    /\ lastOp' = "build"
    /\ target' = NoSaga
    /\ event' = Leaf("None")
    /\ result' = NoResult
    /\ log' = Call(s, CHOOSE ar \in InputsOf(s) : TRUE).log

\* s.map_action(&f): s is moved into the new saga.
MapAction(s, f) ==
    /\ Applied(pool) < MaxCombinators
    /\ pool' = (pool \ {s}) \cup {map_action(s, f)}
    /\ Builds

\* s.map_action_result(&t)
MapActionResult(s, t) ==
    /\ Applied(pool) < MaxCombinators
    /\ pool' = (pool \ {s}) \cup {map_action_result(s, t)}
    /\ Builds

\* s1.combine(s2): both are moved into the new saga.
Combine(s1, s2) ==
    /\ s1 # s2
    /\ Applied(pool) < MaxCombinators
    /\ pool' = (pool \ {s1, s2}) \cup {combine(s1, s2)}
    /\ Builds

\* s1.merge(s2): requires both to have the same AR.
Merge(s1, s2) ==
    /\ s1 # s2
    /\ Applied(pool) < MaxCombinators
    /\ InputsOf(s1) = InputsOf(s2)
    /\ pool' = (pool \ {s1, s2}) \cup {merge(s1, s2)}
    /\ Builds

\* s.compute_new_actions(&ar): s is borrowed, not consumed.
ComputeNewActions(s, ar) ==
    /\ LET r == compute_new_actions(s, ar)
       IN /\ result' = [ok |-> r.ok, out |-> r.out, panic |-> r.panic]
          /\ log' = r.log
    /\ target' = s
    /\ event' = ar
    /\ lastOp' = "compute_new_actions"
    /\ UNCHANGED pool

Next ==
    \/ \E name \in ReactNames : Construct(name)
    \/ \E s \in pool, f \in Transforms : MapAction(s, f)
    \/ \E s \in pool, t \in Adapters : MapActionResult(s, t)
    \/ \E s1 \in pool, s2 \in pool : Combine(s1, s2)
    \/ \E s1 \in pool, s2 \in pool : Merge(s1, s2)
    \/ \E s \in pool : \E ar \in InputsOf(s) : ComputeNewActions(s, ar)

Spec == Init /\ [][Next]_vars

(* ------------------------------ properties ----------------------------- *)
\* The last operation was a compute_new_actions call; target, event, result
\* and log describe it.
Computed == lastOp = "compute_new_actions"

\* What the sagas consumed by the target's combinator return on x.
OfSelf(x) == compute_new_actions(target.self, x)
OfSaga2(x) == compute_new_actions(target.saga2, x)

\* C1: s1.merge(s2) on ar returns the actions of s1 on ar, each wrapped
\* Second, followed by the actions of s2 on the same ar, each wrapped First;
\* each part keeps its order and the length is the sum of the two lengths.
C1_MergeConcatenates ==
    (Computed /\ target.kind = "merge") =>
        LET r1 == OfSelf(event)
            r2 == OfSaga2(event)
        IN (r1.ok /\ r2.ok) =>
              /\ result.ok
              /\ result.out = AllSecond(r1.out) \o AllFirst(r2.out)
              /\ Len(result.out) = Len(r1.out) + Len(r2.out)
              /\ (result.out = <<>>) <=> (r1.out = <<>> /\ r2.out = <<>>)

C1_Witness ==
    /\ Computed /\ target.kind = "merge" /\ result.ok
    /\ Len(OfSelf(event).out) >= 2
    /\ Len(OfSaga2(event).out) >= 1
    /\ Len(result.out) >= 3

\* C2: s1.combine(s2) on First(ar) returns exactly the actions of s1 on ar,
\* each wrapped Second, in the same order; nothing is tagged First.
C2_CombineFirst ==
    (Computed /\ target.kind = "combine" /\ event.tag = "First") =>
        LET r1 == OfSelf(event.val)
        IN r1.ok =>
              /\ result.ok
              /\ Len(result.out) = Len(r1.out)
              /\ \A i \in 1..Len(r1.out) : result.out[i] = Second(r1.out[i])
              /\ \A i \in 1..Len(result.out) : result.out[i].tag # "First"

C2_Witness ==
    /\ Computed /\ target.kind = "combine" /\ event.tag = "First"
    /\ result.ok /\ Len(result.out) >= 2
    /\ result.out[1] # result.out[2]

\* C3: s1.combine(s2) on Second(ar2) returns exactly the actions of s2 on
\* ar2, each wrapped First, in the same order; nothing is tagged Second.
C3_CombineSecond ==
    (Computed /\ target.kind = "combine" /\ event.tag = "Second") =>
        LET r2 == OfSaga2(event.val)
        IN r2.ok =>
              /\ result.ok
              /\ Len(result.out) = Len(r2.out)
              /\ \A i \in 1..Len(r2.out) : result.out[i] = First(r2.out[i])
              /\ \A i \in 1..Len(result.out) : result.out[i].tag # "Second"

C3_Witness ==
    /\ Computed /\ target.kind = "combine" /\ event.tag = "Second"
    /\ result.ok /\ Len(result.out) >= 2
    /\ result.out[1] # result.out[2]

\* C4: s.map_action(f) on ar returns as many actions as s on ar, and its
\* i-th action is f applied to the i-th action of s, for every i.
C4_MapActionElementwise ==
    (Computed /\ target.kind = "map_action") =>
        LET r == OfSelf(event)
        IN r.ok =>
              /\ result.ok
              /\ Len(result.out) = Len(r.out)
              /\ \A i \in 1..Len(r.out) : result.out[i] = Transform(target.f, r.out[i])

C4_Witness ==
    /\ Computed /\ target.kind = "map_action" /\ result.ok
    /\ Len(result.out) >= 2
    /\ result.out[1] # result.out[2]
    /\ result.out # OfSelf(event).out

\* C5: s.map_action_result(t) on x returns what s returns on t(x): the same
\* actions in the same order (and the same failure, if s fails on t(x)).
C5_MapActionResultAdapts ==
    (Computed /\ target.kind = "map_action_result") =>
        LET r == OfSelf(Adapter(target.adapter, event))
        IN /\ result.ok = r.ok
           /\ result.out = r.out
           /\ result.panic = r.panic

C5_Witness ==
    /\ Computed /\ target.kind = "map_action_result" /\ result.ok
    /\ Len(result.out) >= 2
    /\ Adapter(target.adapter, event) # event
    /\ event \in InputsOf(target.self)
    /\ result.out # OfSelf(event).out

\* C6: s.map_action(f).map_action(g) returns on every input what
\* s.map_action(g after f) returns (functor composition law).
C6_MapActionComposition ==
    (Computed /\ target.kind = "map_action" /\ target.self.kind = "map_action") =>
        LET once == compute_new_actions(
                        map_action(target.self.self, compose(target.f, target.self.f)),
                        event)
        IN /\ result.ok = once.ok
           /\ result.out = once.out
           /\ result.panic = once.panic

C6_Witness ==
    /\ Computed /\ target.kind = "map_action" /\ target.self.kind = "map_action"
    /\ target.f # target.self.f
    /\ result.ok /\ Len(result.out) >= 2
    /\ result.out[1] # result.out[2]

\* The positions of the log at which a caller-supplied reaction function was
\* invoked on an argument it fails on.
Failing ==
    {i \in 1..Len(log) :
        /\ log[i].callee.kind = "base"
        /\ ~ReactFn(log[i].callee.react, log[i].arg).ok}

\* C7: if a reaction function invoked during compute_new_actions fails, the
\* call ends with that same failure and no actions, the failing function is
\* the last thing invoked and is invoked once; if none fails, the call
\* returns normally.
C7_FailurePropagates ==
    Computed =>
        IF Failing = {}
          THEN result.ok /\ result.panic = NoPanic
          ELSE /\ ~result.ok
               /\ result.out = <<>>
               /\ Failing = {Len(log)}
               /\ result.panic = [by |-> log[Len(log)].callee.react,
                                  arg |-> log[Len(log)].arg]

C7_Witness ==
    /\ Computed /\ target.kind = "merge" /\ ~result.ok
    /\ Failing # {}
    /\ result.panic.by = target.self.react

\* C8: a combinator call invokes no reaction function, transform or
\* adapter; invocations happen only during a compute_new_actions call.
C8_CombinatorsAreLazy ==
    (log # <<>>) => lastOp = "compute_new_actions"

C8_Witness ==
    /\ lastOp = "build" /\ log = <<>>
    /\ Applied(pool) >= 2
    /\ \E s \in pool : Size(s) >= 2

\* C9 (as the doc comment of merge states it): in the actions of
\* s1.merge(s2) the First position holds the actions of s1 and the Second
\* position those of s2.
C9_MergeDocSumOrder ==
    (Computed /\ target.kind = "merge") =>
        LET r1 == OfSelf(event)
            r2 == OfSaga2(event)
        IN (r1.ok /\ r2.ok) =>
              /\ \A i \in 1..Len(r1.out) : result.out[i] = First(r1.out[i])
              /\ \A i \in 1..Len(r2.out) :
                    result.out[Len(r1.out) + i] = Second(r2.out[i])

\* How often the log records an invocation of the closure of saga n.
Count(n) == Cardinality({i \in 1..Len(log) : log[i].callee = n})

\* C10: one compute_new_actions call on s1.combine(s2) invokes, on
\* First(ar), the reaction function of s1 exactly once and nothing of s2,
\* and on Second(ar2) that of s2 exactly once and nothing of s1.
C10_CombineRunsOneBranch ==
    (Computed /\ target.kind = "combine") =>
        IF event.tag = "First"
          THEN /\ Count(target.self) = 1
               /\ \A n \in Nodes(target.saga2) : Count(n) = 0
          ELSE /\ Count(target.saga2) = 1
               /\ \A n \in Nodes(target.self) : Count(n) = 0

C10_Witness ==
    /\ Computed /\ target.kind = "combine" /\ event.tag = "Second"
    /\ target.self.kind = "base" /\ target.self.react = "faulty_saga"
    /\ event.val = Leaf("Updated")
    /\ result.ok /\ Len(result.out) >= 1

====
